---- MODULE Spec2Model ----
(***************************************************************************)
(* Model of the DYP-R01CW laser ranging sensor driver (class DYP_R01CW).   *)
(*                                                                         *)
(* The driver object has three fields (_addr, _wire, _distanceOffset).     *)
(* Every public method is one action, except readDistance: it waits in     *)
(* delay(50) between its two transactions, delay() runs the yield() hook   *)
(* and the class has no lock, so other methods of the same driver can run  *)
(* during the wait.  readDistance is therefore two steps, one up to the    *)
(* wait and one after it, and the second reads the fields again.           *)
(*                                                                         *)
(* The TwoWire bus is an external collaborator: whenever a method asks it  *)
(* for a result (the status of endTransmission, the count of requestFrom,  *)
(* a byte of read) the answer is drawn from a small set.  Every call a     *)
(* step makes on the bus is appended, in order and with the answer it got, *)
(* to the log of the step.                                                 *)
(*                                                                         *)
(* op, arg, ret and log describe the last step: the method, its argument,  *)
(* the value it returned and its bus calls.  waiting is the number of      *)
(* readDistance calls that are inside their wait.                          *)
(***************************************************************************)
EXTENDS Integers, Sequences, FiniteSets, TLC

VARIABLES addr, wire, distanceOffset, op, arg, ret, log, waiting

vars == <<addr, wire, distanceOffset, op, arg, ret, log, waiting>>

(***************************************************************************)
(* Program constants (DYP_R01CW.h).                                        *)
(***************************************************************************)
DYP_R01CW_DEFAULT_ADDR == 112
DYP_R01CW_VERSION_REG == 0
DYP_R01CW_COMMAND_REG == 16
DYP_R01CW_DATA_REG == 2
DYP_R01CW_SLAVE_ADDR_REG == 5
DYP_R01CW_MEASURE_COMMAND == 176
\* The two restart command bytes are used by restart() but the header
\* revision in the tree does not define them; the values stand for two
\* fixed bytes.
DYP_R01CW_RESTART_COMMAND_1 == 90
DYP_R01CW_RESTART_COMMAND_2 == 165
\* delay(50) in readDistance
MeasureDelayMs == 50
\* requestFrom(_addr, (uint8_t)2)
ReadLen == 2

(***************************************************************************)
(* Bounds of the model.                                                    *)
(***************************************************************************)
\* endTransmission answers a status in 0..MaxStatus (0 = success)
MaxStatus == 2
\* requestFrom answers a count in 0..MaxCount
MaxCount == 3
\* at most MaxWaiting calls of readDistance are inside their wait at a time
MaxWaiting == 1

Status == 0 .. MaxStatus
Counts == 0 .. MaxCount
\* bytes the bus delivers
Bytes == {0, 1, 2, 100, 255}
\* arguments of setDistanceOffset (int16_t)
Offsets == {-32768, -1, 0, 10, 32767}
\* arguments of the constructor (8-bit address), besides the default
CtorArgs == {224, 208}
\* arguments of setAddress in the full specification
AddrArgs == {0, 206, 207, 208, 209, 224, 238, 239, 240, 242, 246, 247, 248, 254, 255}
\* every uint8_t
UInt8 == 0 .. 255

\* TwoWire* values: the null pointer, &Wire, and another bus object
nullptr == "nullptr"
Handles == {"nullptr", "Wire", "Wire1"}

(***************************************************************************)
(* Bus events.                                                             *)
(***************************************************************************)
Ev(e, a, v, r) == [ev |-> e, addr |-> a, val |-> v, res |-> r]

WireBegin == Ev("begin", 0, 0, 0)
beginTransmission(a) == Ev("beginTransmission", a, 0, 0)
write(b) == Ev("write", 0, b, 0)
endTransmission(status) == Ev("endTransmission", 0, 0, status)
requestFrom(a, quantity, n) == Ev("requestFrom", a, quantity, n)
read(b) == Ev("read", 0, 0, b)
delay(ms) == Ev("delay", 0, ms, 0)

(***************************************************************************)
(* Integer helpers: C++ arithmetic on fixed-width integers.                *)
(***************************************************************************)
RECURSIVE BitOr(_, _)
BitOr(a, b) ==
    IF a = 0 THEN b
    ELSE IF b = 0 THEN a
    ELSE (IF a % 2 = 1 \/ b % 2 = 1 THEN 1 ELSE 0) + 2 * BitOr(a \div 2, b \div 2)

\* conversion to uint16_t
ToUInt16(x) == x % 65536

\* conversion to int16_t (two's complement, modulo 2^16)
ToInt16(x) == LET m == x % 65536 IN IF m >= 32768 THEN m - 65536 ELSE m

\* Variant of Shr1: the 8-bit address is used as it is.
Shr1_NoShift(a) == a

\* addr >> 1 on a uint8_t
Shr1(a) == a \div 2

(***************************************************************************)
(* The methods, as functions of the object's fields, the argument and the  *)
(* answers of the bus.  Each yields the return value, the bus calls made   *)
(* (log) and the fields it assigns.                                        *)
(***************************************************************************)

\* DYP_R01CW::DYP_R01CW(uint8_t addr)
Construct(a) == [addr |-> Shr1(a), wire |-> nullptr, distanceOffset |-> 0]

\* Variant of version: the two bytes combined low byte first.
version_LittleEndian(highByte, lowByte) == ToUInt16(BitOr(lowByte * 256, highByte))

\* uint16_t version = (highByte << 8) | lowByte
version(highByte, lowByte) == ToUInt16(BitOr(highByte * 256, lowByte))

\* Variant of readSoftwareVersion: the count of requestFrom is not checked.
readSoftwareVersion_NoCountCheck(w, a, error, bytesReceived, highByte, lowByte) ==
    IF w = nullptr THEN [ret |-> 0, log |-> <<>>]
    ELSE LET tx == <<beginTransmission(a), write(DYP_R01CW_VERSION_REG),
                     endTransmission(error)>>
             rq == tx \o <<requestFrom(a, ReadLen, bytesReceived)>>
         IN  IF error # 0 THEN [ret |-> 0, log |-> tx]
             ELSE [ret |-> version(highByte, lowByte),
                   log |-> rq \o <<read(highByte), read(lowByte)>>]

\* uint16_t readSoftwareVersion()
readSoftwareVersion(w, a, error, bytesReceived, highByte, lowByte) ==
    IF w = nullptr THEN [ret |-> 0, log |-> <<>>]
    ELSE LET tx == <<beginTransmission(a), write(DYP_R01CW_VERSION_REG),
                     endTransmission(error)>>
             rq == tx \o <<requestFrom(a, ReadLen, bytesReceived)>>
         IN  IF error # 0 THEN [ret |-> 0, log |-> tx]
             ELSE IF bytesReceived # ReadLen THEN [ret |-> 0, log |-> rq]
             ELSE [ret |-> version(highByte, lowByte),
                   log |-> rq \o <<read(highByte), read(lowByte)>>]

\* Variant of begin: a failed probe drops the handle again.
begin_UnbindOnFailure(a, wireArg, error, bytesReceived, highByte, lowByte) ==
    LET started == IF wireArg = "Wire" THEN <<WireBegin>> ELSE <<>>
        probe == readSoftwareVersion(wireArg, a, error, bytesReceived, highByte, lowByte)
    IN  [wire |-> IF probe.ret = 0 THEN nullptr ELSE wireArg,
         ret |-> IF probe.ret = 0 THEN FALSE ELSE TRUE,
         log |-> started \o probe.log]

\* Variant of begin: the result of the probe is not looked at.
begin_NoProbeCheck(a, wireArg, error, bytesReceived, highByte, lowByte) ==
    LET started == IF wireArg = "Wire" THEN <<WireBegin>> ELSE <<>>
        probe == readSoftwareVersion(wireArg, a, error, bytesReceived, highByte, lowByte)
    IN  [wire |-> wireArg,
         ret |-> TRUE,
         log |-> started \o probe.log]

\* bool begin(TwoWire *wire)
begin(a, wireArg, error, bytesReceived, highByte, lowByte) ==
    LET started == IF wireArg = "Wire" THEN <<WireBegin>> ELSE <<>>
        probe == readSoftwareVersion(wireArg, a, error, bytesReceived, highByte, lowByte)
    IN  [wire |-> wireArg,
         ret |-> IF probe.ret = 0 THEN FALSE ELSE TRUE,
         log |-> started \o probe.log]

\* uint16_t rawDistance = (highByte << 8) | lowByte
rawDistance(highByte, lowByte) == ToUInt16(BitOr(highByte * 256, lowByte))

\* Variant of distance: the offset is not applied.
distance_NoOffset(raw, offset) == ToInt16(raw)

\* int16_t distance = rawDistance + _distanceOffset
distance(raw, offset) == ToInt16(raw + offset)

\* Variant of readDistanceCommand: the wait for the measurement is missing.
readDistanceCommand_NoDelay(w, a, error1) ==
    IF w = nullptr THEN [wait |-> FALSE, ret |-> -1, log |-> <<>>]
    ELSE LET cmd == <<beginTransmission(a), write(DYP_R01CW_COMMAND_REG),
                      write(DYP_R01CW_MEASURE_COMMAND), endTransmission(error1)>>
         IN  IF error1 # 0 THEN [wait |-> FALSE, ret |-> -1, log |-> cmd]
             ELSE [wait |-> TRUE, ret |-> 0, log |-> cmd]

\* int16_t readDistance(), up to the wait: the null check, the command
\* transaction and delay(50).  wait tells whether the call reached the wait;
\* otherwise it has returned ret.
readDistanceCommand(w, a, error1) ==
    IF w = nullptr THEN [wait |-> FALSE, ret |-> -1, log |-> <<>>]
    ELSE LET cmd == <<beginTransmission(a), write(DYP_R01CW_COMMAND_REG),
                      write(DYP_R01CW_MEASURE_COMMAND), endTransmission(error1)>>
         IN  IF error1 # 0 THEN [wait |-> FALSE, ret |-> -1, log |-> cmd]
             ELSE [wait |-> TRUE, ret |-> 0, log |-> cmd \o <<delay(MeasureDelayMs)>>]

\* Variant of readDistanceData: the status of the data-pointer write is not checked.
readDistanceData_NoDataPtrCheck(a, offset, error2, bytesReceived, highByte, lowByte) ==
    LET ptr == <<beginTransmission(a), write(DYP_R01CW_DATA_REG),
                 endTransmission(error2)>>
        rq == ptr \o <<requestFrom(a, ReadLen, bytesReceived)>>
        rd == rq \o <<read(highByte), read(lowByte)>>
    IN  IF bytesReceived # ReadLen THEN [ret |-> -1, log |-> rq]
        ELSE IF rawDistance(highByte, lowByte) = 65535 THEN [ret |-> -1, log |-> rd]
        ELSE [ret |-> distance(rawDistance(highByte, lowByte), offset), log |-> rd]

\* int16_t readDistance(), after the wait: the data-pointer transaction, the
\* request, the two reads and the result.  a and offset are the fields as
\* they are after the wait; the handle is not tested again.
readDistanceData(a, offset, error2, bytesReceived, highByte, lowByte) ==
    LET ptr == <<beginTransmission(a), write(DYP_R01CW_DATA_REG),
                 endTransmission(error2)>>
        rq == ptr \o <<requestFrom(a, ReadLen, bytesReceived)>>
        rd == rq \o <<read(highByte), read(lowByte)>>
    IN  IF error2 # 0 THEN [ret |-> -1, log |-> ptr]
        ELSE IF bytesReceived # ReadLen THEN [ret |-> -1, log |-> rq]
        ELSE IF rawDistance(highByte, lowByte) = 65535 THEN [ret |-> -1, log |-> rd]
        ELSE [ret |-> distance(rawDistance(highByte, lowByte), offset), log |-> rd]

\* Variant of isConnected: the status itself is returned as the result.
isConnected_ReturnsStatus(w, a, error) ==
    IF w = nullptr THEN [ret |-> FALSE, log |-> <<>>]
    ELSE [ret |-> (error # 0),
          log |-> <<beginTransmission(a), endTransmission(error)>>]

\* bool isConnected()
isConnected(w, a, error) ==
    IF w = nullptr THEN [ret |-> FALSE, log |-> <<>>]
    ELSE [ret |-> (error = 0),
          log |-> <<beginTransmission(a), endTransmission(error)>>]

\* Variant of IsValidNewAddr: the reserved range 0xF0..0xF6 is not excluded.
IsValidNewAddr_NoReserved(newAddr) ==
    ~(newAddr < 208 \/ newAddr > 254 \/ newAddr % 2 # 0)

\* Variant of IsValidNewAddr: the upper limit 0xFE is itself rejected.
IsValidNewAddr_UpperExclusive(newAddr) ==
    /\ ~(newAddr < 208 \/ newAddr >= 254 \/ newAddr % 2 # 0)
    /\ ~(newAddr >= 240 /\ newAddr <= 246)

\* the validation of setAddress
IsValidNewAddr(newAddr) ==
    /\ ~(newAddr < 208 \/ newAddr > 254 \/ newAddr % 2 # 0)
    /\ ~(newAddr >= 240 /\ newAddr <= 246)

\* Variant of setAddress: the address is updated before the status is checked.
setAddress_UpdateBeforeCheck(w, a, newAddr, error) ==
    IF w = nullptr THEN [ret |-> FALSE, log |-> <<>>, addr |-> a]
    ELSE IF ~IsValidNewAddr(newAddr) THEN [ret |-> FALSE, log |-> <<>>, addr |-> a]
    ELSE LET tx == <<beginTransmission(a), write(DYP_R01CW_SLAVE_ADDR_REG),
                     write(newAddr), endTransmission(error)>>
         IN  IF error # 0 THEN [ret |-> FALSE, log |-> tx, addr |-> Shr1(newAddr)]
             ELSE [ret |-> TRUE, log |-> tx, addr |-> Shr1(newAddr)]

\* Variant of setAddress: the request is sent to the new address.
setAddress_ToNewAddr(w, a, newAddr, error) ==
    IF w = nullptr THEN [ret |-> FALSE, log |-> <<>>, addr |-> a]
    ELSE IF ~IsValidNewAddr(newAddr) THEN [ret |-> FALSE, log |-> <<>>, addr |-> a]
    ELSE LET tx == <<beginTransmission(Shr1(newAddr)), write(DYP_R01CW_SLAVE_ADDR_REG),
                     write(newAddr), endTransmission(error)>>
         IN  IF error # 0 THEN [ret |-> FALSE, log |-> tx, addr |-> a]
             ELSE [ret |-> TRUE, log |-> tx, addr |-> Shr1(newAddr)]

\* bool setAddress(uint8_t newAddr)
setAddress(w, a, newAddr, error) ==
    IF w = nullptr THEN [ret |-> FALSE, log |-> <<>>, addr |-> a]
    ELSE IF ~IsValidNewAddr(newAddr) THEN [ret |-> FALSE, log |-> <<>>, addr |-> a]
    ELSE LET tx == <<beginTransmission(a), write(DYP_R01CW_SLAVE_ADDR_REG),
                     write(newAddr), endTransmission(error)>>
         IN  IF error # 0 THEN [ret |-> FALSE, log |-> tx, addr |-> a]
             ELSE [ret |-> TRUE, log |-> tx, addr |-> Shr1(newAddr)]

\* Variant of restart: the two command bytes are written in the other order.
restart_SwappedCommands(w, a, error) ==
    IF w = nullptr THEN [ret |-> FALSE, log |-> <<>>]
    ELSE [ret |-> (error = 0),
          log |-> <<beginTransmission(a), write(DYP_R01CW_COMMAND_REG),
                    write(DYP_R01CW_RESTART_COMMAND_2),
                    write(DYP_R01CW_RESTART_COMMAND_1), endTransmission(error)>>]

\* Variant of restart: the null check of the handle is missing.
restart_NoNullCheck(w, a, error) ==
    [ret |-> (error = 0),
     log |-> <<beginTransmission(a), write(DYP_R01CW_COMMAND_REG),
               write(DYP_R01CW_RESTART_COMMAND_1),
               write(DYP_R01CW_RESTART_COMMAND_2), endTransmission(error)>>]

\* bool restart()
restart(w, a, error) ==
    IF w = nullptr THEN [ret |-> FALSE, log |-> <<>>]
    ELSE [ret |-> (error = 0),
          log |-> <<beginTransmission(a), write(DYP_R01CW_COMMAND_REG),
                    write(DYP_R01CW_RESTART_COMMAND_1),
                    write(DYP_R01CW_RESTART_COMMAND_2), endTransmission(error)>>]

(***************************************************************************)
(* The state machine.                                                      *)
(***************************************************************************)

\* The bus answers only the calls that are made: the answer of a step that
\* is not reached is fixed.
Reached(c, S) == IF c THEN S ELSE {0}

\* The state after construction, with the default argument or an explicit one.
Init ==
    /\ \/ /\ op = "construct_default"
          /\ arg = DYP_R01CW_DEFAULT_ADDR
       \/ /\ op = "construct"
          /\ arg \in CtorArgs
    /\ addr = Construct(arg).addr
    /\ wire = Construct(arg).wire
    /\ distanceOffset = Construct(arg).distanceOffset
    /\ ret = 0
    /\ log = <<>>
    /\ waiting = 0

\* Variant of Begin: the call also sets the offset back to 0.
Begin_ResetsOffset ==
    \E wireArg \in Handles :
    \E error \in Reached(wireArg # nullptr, Status) :
    \E bytesReceived \in Reached(wireArg # nullptr /\ error = 0, Counts) :
    \E highByte, lowByte \in Reached(wireArg # nullptr /\ error = 0 /\ bytesReceived = ReadLen, Bytes) :
        LET r == begin(addr, wireArg, error, bytesReceived, highByte, lowByte) IN
        /\ op # "crash"
        /\ op' = "begin"
        /\ arg' = wireArg
        /\ wire' = r.wire
        /\ ret' = r.ret
        /\ log' = r.log
        /\ distanceOffset' = 0
        /\ UNCHANGED <<addr, waiting>>

Begin ==
    \E wireArg \in Handles :
    \E error \in Reached(wireArg # nullptr, Status) :
    \E bytesReceived \in Reached(wireArg # nullptr /\ error = 0, Counts) :
    \E highByte, lowByte \in Reached(wireArg # nullptr /\ error = 0 /\ bytesReceived = ReadLen, Bytes) :
        LET r == begin(addr, wireArg, error, bytesReceived, highByte, lowByte) IN
        /\ op # "crash"
        /\ op' = "begin"
        /\ arg' = wireArg
        /\ wire' = r.wire
        /\ ret' = r.ret
        /\ log' = r.log
        /\ UNCHANGED <<addr, distanceOffset, waiting>>

\* readDistance is called and runs up to the wait, or returns before it.
ReadDistanceStart ==
    \E error1 \in Reached(wire # nullptr, Status) :
        LET r == readDistanceCommand(wire, addr, error1) IN
        /\ r.wait => waiting < MaxWaiting
        /\ op # "crash"
        /\ op' = IF r.wait THEN "readDistance_delay" ELSE "readDistance"
        /\ arg' = 0
        /\ ret' = r.ret
        /\ log' = r.log
        /\ waiting' = IF r.wait THEN waiting + 1 ELSE waiting
        /\ UNCHANGED <<addr, wire, distanceOffset>>

\* A readDistance that waited runs on and returns.  It uses the fields as
\* they are now.  With the handle set to null during the wait the calls on
\* it are undefined: this action is the outcome in which they go through
\* (TwoWire keeps its state in static members on some cores),
\* ReadDistanceNullDeref the outcome in which the program ends.
ReadDistanceFinish ==
    /\ waiting > 0
    /\ \E highByte, lowByte \in Bytes :
       \E error2 \in Status :
       \E bytesReceived \in Reached(error2 = 0, Counts) :
           LET r == readDistanceData(addr, distanceOffset, error2,
                                     bytesReceived, highByte, lowByte) IN
           /\ op # "crash"
           /\ op' = "readDistance"
           /\ arg' = 0
           /\ ret' = r.ret
           /\ log' = r.log
           /\ waiting' = waiting - 1
           /\ UNCHANGED <<addr, wire, distanceOffset>>

\* A readDistance that waited runs on with the handle set to null during
\* the wait, and the call on the null handle ends the program.
ReadDistanceNullDeref ==
    /\ waiting > 0
    /\ wire = nullptr
    /\ op # "crash"
    /\ op' = "crash"
    /\ arg' = 0
    /\ ret' = 0
    /\ log' = <<>>
    /\ UNCHANGED <<addr, wire, distanceOffset, waiting>>

IsConnected ==
    \E error \in Reached(wire # nullptr, Status) :
        LET r == isConnected(wire, addr, error) IN
        /\ op # "crash"
        /\ op' = "isConnected"
        /\ arg' = 0
        /\ ret' = r.ret
        /\ log' = r.log
        /\ UNCHANGED <<addr, wire, distanceOffset, waiting>>

ReadSoftwareVersion ==
    \E error \in Reached(wire # nullptr, Status) :
    \E bytesReceived \in Reached(wire # nullptr /\ error = 0, Counts) :
    \E highByte, lowByte \in Reached(wire # nullptr /\ error = 0 /\ bytesReceived = ReadLen, Bytes) :
        LET r == readSoftwareVersion(wire, addr, error, bytesReceived, highByte, lowByte) IN
        /\ op # "crash"
        /\ op' = "readSoftwareVersion"
        /\ arg' = 0
        /\ ret' = r.ret
        /\ log' = r.log
        /\ UNCHANGED <<addr, wire, distanceOffset, waiting>>

\* setAddress with an argument of the set S
SetAddressIn(S) ==
    \E newAddr \in S :
    \E error \in Reached(wire # nullptr /\ IsValidNewAddr(newAddr), Status) :
        LET r == setAddress(wire, addr, newAddr, error) IN
        /\ op # "crash"
        /\ op' = "setAddress"
        /\ arg' = newAddr
        /\ addr' = r.addr
        /\ ret' = r.ret
        /\ log' = r.log
        /\ UNCHANGED <<wire, distanceOffset, waiting>>

SetAddress == SetAddressIn(AddrArgs)

\* Variant of SetDistanceOffset: the offset is kept in an unsigned field.
SetDistanceOffset_Unsigned ==
    \E offset \in Offsets :
        /\ op # "crash"
        /\ op' = "setDistanceOffset"
        /\ arg' = offset
        /\ distanceOffset' = ToUInt16(offset)
        /\ ret' = 0
        /\ log' = <<>>
        /\ UNCHANGED <<addr, wire, waiting>>

SetDistanceOffset ==
    \E offset \in Offsets :
        /\ op # "crash"
        /\ op' = "setDistanceOffset"
        /\ arg' = offset
        /\ distanceOffset' = offset
        /\ ret' = 0
        /\ log' = <<>>
        /\ UNCHANGED <<addr, wire, waiting>>

GetDistanceOffset ==
    /\ op # "crash"
    /\ op' = "getDistanceOffset"
    /\ arg' = 0
    /\ ret' = distanceOffset
    /\ log' = <<>>
    /\ UNCHANGED <<addr, wire, distanceOffset, waiting>>

Restart ==
    \E error \in Reached(wire # nullptr, Status) :
        LET r == restart(wire, addr, error) IN
        /\ op # "crash"
        /\ op' = "restart"
        /\ arg' = 0
        /\ ret' = r.ret
        /\ log' = r.log
        /\ UNCHANGED <<addr, wire, distanceOffset, waiting>>

Next ==
    \/ Begin
    \/ ReadDistanceStart
    \/ ReadDistanceFinish
    \/ ReadDistanceNullDeref
    \/ IsConnected
    \/ ReadSoftwareVersion
    \/ SetAddress
    \/ SetDistanceOffset
    \/ GetDistanceOffset
    \/ Restart

Spec == Init /\ [][Next]_vars

(***************************************************************************)
(* The address specification: the driver with setAddress called with every *)
(* uint8_t value.                                                          *)
(***************************************************************************)
SetAddressAny == SetAddressIn(UInt8)

NextAddr ==
    \/ Begin
    \/ SetAddressAny

SpecAddr == Init /\ [][NextAddr]_vars

TypeOK ==
    /\ addr \in 0 .. 127
    /\ wire \in Handles
    /\ distanceOffset \in -32768 .. 32767
    /\ waiting \in 0 .. MaxWaiting

(***************************************************************************)
(* Properties.                                                             *)
(***************************************************************************)

\* a bus step that reports a failure: a nonzero status of endTransmission,
\* or a count of requestFrom other than the two bytes asked for
FailedStep(e) ==
    \/ e.ev = "endTransmission" /\ e.res # 0
    \/ e.ev = "requestFrom" /\ e.res # 2

Failed(l) == \E i \in 1 .. Len(l) : FailedStep(l[i])

Requested(l) == \E i \in 1 .. Len(l) : l[i].ev = "requestFrom"

CountEv(l, e) == Cardinality({i \in 1 .. Len(l) : l[i].ev = e})

\* the 8-bit values outside the legal set, as the specification words it
OutsideLegalSet(a) ==
    a % 2 = 1 \/ a < 208 \/ a > 254 \/ (a >= 240 /\ a <= 246)

\* the legal set, as the specification words it
LegalAddr8 ==
    {a \in UInt8 : a % 2 = 0 /\ a >= 208 /\ a <= 254 /\ ~(a >= 240 /\ a <= 246)}

\* C1: setAddress on a bound driver with an 8-bit value outside the legal
\* set (odd, below 0xD0, above 0xFE, or in 0xF0..0xF6) returns false, makes
\* no bus call and leaves the 7-bit address as it was.
C1_IllegalAddressRejected ==
    [][(wire # nullptr /\ op' = "setAddress" /\ OutsideLegalSet(arg'))
        => (ret' = FALSE /\ log' = <<>> /\ addr' = addr)]_vars

C1_Witness ==
    /\ op = "setAddress"
    /\ wire # nullptr
    /\ arg = 242
    /\ ret = FALSE
    /\ log = <<>>

\* C2: the legal set has exactly 20 values, and setAddress on a bound driver
\* with a value of the legal set issues its transaction and, when that ends
\* with status 0, returns true and leaves the 7-bit address at addr8 >> 1.
C2_LegalAddressAccepted ==
    /\ Cardinality(LegalAddr8) = 20
    /\ (op = "setAddress" /\ wire # nullptr /\ arg \in LegalAddr8)
        => /\ Len(log) = 4
           /\ log[4].ev = "endTransmission"
           /\ (log[4].res = 0 => (ret = TRUE /\ addr = arg \div 2))

C2_Witness ==
    /\ op = "setAddress"
    /\ wire # nullptr
    /\ arg = 254
    /\ ret = TRUE
    /\ addr = 127

\* C3: when a step of readDistance fails (nonzero status of either write
\* transaction, or a count other than 2), the call returns -1 and the failed
\* step is its last bus call, whatever bytes the bus holds; a call that
\* reaches the wait has no failed step behind it.
C3_ReadDistanceAbortsOnFailure ==
    op \in {"readDistance", "readDistance_delay"}
        => \A i \in 1 .. Len(log) :
               FailedStep(log[i])
                   => (op = "readDistance" /\ ret = -1 /\ i = Len(log))

C3_Witness ==
    /\ op = "readDistance"
    /\ Len(log) = 3
    /\ log[2] = write(DYP_R01CW_DATA_REG)
    /\ log[3].ev = "endTransmission"
    /\ log[3].res # 0
    /\ ret = -1

\* C4: when every step of readDistance succeeds, the call returns -1 for the
\* raw value 0xFFFF and otherwise (high*256 + low) + distanceOffset modulo
\* 2^16, read as a signed 16-bit value.
C4_ReadDistanceValue ==
    (op = "readDistance" /\ Requested(log) /\ ~Failed(log))
        => /\ Len(log) = 6
           /\ log[5].ev = "read"
           /\ log[6].ev = "read"
           /\ LET raw == log[5].res * 256 + log[6].res
                  sum == (raw + distanceOffset + 65536) % 65536
              IN  ret = IF raw = 65535 THEN -1
                        ELSE IF sum >= 32768 THEN sum - 65536 ELSE sum

C4_Witness ==
    /\ op = "readDistance"
    /\ Len(log) = 6
    /\ log[5].res = 0
    /\ log[6].res = 100
    /\ distanceOffset = 10
    /\ ret = 110

\* C5: a readDistance whose bus steps all succeed and whose raw value is not
\* 0xFFFF never returns -1.
C5_MinusOneOnlyOnFailure ==
    (op = "readDistance" /\ Requested(log) /\ ~Failed(log) /\ Len(log) = 6
        /\ log[5].res * 256 + log[6].res # 65535)
        => ret # -1

\* the failure sentinel of each operation that needs the bus
Sentinel(o) ==
    CASE o = "readDistance" -> -1
      [] o = "isConnected" -> FALSE
      [] o = "readSoftwareVersion" -> 0
      [] o = "setAddress" -> FALSE
      [] o = "restart" -> FALSE

\* C6: readDistance, isConnected, readSoftwareVersion, setAddress and restart
\* called with no handle bound return their failure sentinel, make no bus
\* call and leave the address and the offset as they were.  (A step that
\* lowers waiting is not a call: it is the rest of a readDistance called
\* earlier.)
C6_UninitializedUse ==
    [][(wire = nullptr /\ waiting' = waiting
        /\ op' \in {"readDistance", "isConnected", "readSoftwareVersion",
                    "setAddress", "restart"})
        => /\ ret' = Sentinel(op')
           /\ log' = <<>>
           /\ addr' = addr
           /\ distanceOffset' = distanceOffset]_vars

C6_Witness ==
    /\ wire = nullptr
    /\ op = "restart"
    /\ ret = FALSE
    /\ log = <<>>
    /\ distanceOffset # 0

\* C7, as claimed: only begin binds a handle, and a bound driver stays bound
\* after every operation, begin with any handle argument included.
C7_NeverUnbound ==
    [][/\ (wire = nullptr /\ wire' # nullptr) => op' = "begin"
       /\ wire # nullptr => wire' # nullptr]_vars

\* C7, amended: only begin binds a handle, and a bound driver stays bound
\* after every operation except begin called with the null pointer, which
\* leaves the driver unbound.
C7_UnboundOnlyByNullBegin ==
    [][/\ (wire = nullptr /\ wire' # nullptr) => op' = "begin"
       /\ (wire # nullptr /\ ~(op' = "begin" /\ arg' = nullptr)) => wire' # nullptr
       /\ (op' = "begin" /\ arg' = nullptr) => wire' = nullptr]_vars

C7_Witness ==
    /\ op = "begin"
    /\ arg = "Wire1"
    /\ ret = FALSE
    /\ wire = "Wire1"

\* C8: a driver constructed with the default argument has the 7-bit address
\* 0x70, the address of a driver constructed with 0xE0.
C8_DefaultAddress ==
    op = "construct_default" => (addr = 112 /\ addr = Construct(224).addr)

\* C9, as claimed: on a bound driver readSoftwareVersion returns 0 exactly
\* when a step fails, and otherwise high*256 + low.
C9_ZeroIffFailure ==
    (op = "readSoftwareVersion" /\ wire # nullptr)
        => /\ (ret = 0) <=> Failed(log)
           /\ ~Failed(log) => (Len(log) = 6 /\ ret = log[5].res * 256 + log[6].res)

\* C9, amended: on a bound driver readSoftwareVersion returns 0 when a step
\* fails, and otherwise high*256 + low of the two bytes read (which is 0 for
\* the bytes 0, 0).
C9_ZeroOnFailure ==
    (op = "readSoftwareVersion" /\ wire # nullptr)
        => /\ Failed(log) => ret = 0
           /\ ~Failed(log) => (/\ Len(log) = 6
                               /\ log[5].ev = "read"
                               /\ log[6].ev = "read"
                               /\ ret = log[5].res * 256 + log[6].res)

C9_Witness ==
    /\ op = "readSoftwareVersion"
    /\ Len(log) = 6
    /\ log[5].res = 1
    /\ log[6].res = 2
    /\ ret = 258

\* the bus calls of begin after the start of the default bus
ProbeLog == IF arg = "Wire" THEN Tail(log) ELSE log

\* C10: begin binds the handle it is given, reads the version register once,
\* and returns false when that read yields 0 and true when it yields any
\* other value.
C10_BeginProbes ==
    op = "begin"
        => /\ wire = arg
           /\ arg = "Wire" => (Len(log) >= 1 /\ log[1] = WireBegin)
           /\ arg = nullptr => (log = <<>> /\ ret = FALSE)
           /\ arg # nullptr
                => /\ Len(ProbeLog) \in {3, 4, 6}
                   /\ ProbeLog[1] = beginTransmission(addr)
                   /\ ProbeLog[2] = write(DYP_R01CW_VERSION_REG)
                   /\ ProbeLog[3].ev = "endTransmission"
                   /\ CountEv(log, "beginTransmission") = 1
                   /\ CountEv(log, "requestFrom") <= 1
                   /\ Len(ProbeLog) >= 4 => ProbeLog[4] = requestFrom(addr, 2, ProbeLog[4].res)
                   /\ ret = (/\ Len(ProbeLog) = 6
                             /\ ProbeLog[5].res * 256 + ProbeLog[6].res # 0)

C10_Witness ==
    /\ op = "begin"
    /\ arg = "Wire"
    /\ wire = "Wire"
    /\ Len(log) = 7
    /\ ret = TRUE

\* C11: a setAddress whose transaction is issued and ends with a nonzero
\* status returns false and leaves the 7-bit address as it was.
C11_SetAddressBusError ==
    [][(op' = "setAddress" /\ Len(log') > 0
        /\ log'[Len(log')].ev = "endTransmission"
        /\ log'[Len(log')].res # 0)
        => (ret' = FALSE /\ addr' = addr)]_vars

C11_Witness ==
    /\ op = "setAddress"
    /\ arg = 208
    /\ Len(log) = 4
    /\ log[4].res # 0
    /\ ret = FALSE
    /\ addr # 104

\* C12: the address is always in 0..127, and it changes only in a setAddress
\* call whose argument is in the legal set and whose transaction ended with
\* status 0, to that argument shifted right by one.
C12_AddressRange ==
    /\ [](addr \in 0 .. 127)
    /\ [][addr' # addr
            => /\ op' = "setAddress"
               /\ arg' \in LegalAddr8
               /\ ret' = TRUE
               /\ Len(log') = 4
               /\ log'[4].ev = "endTransmission"
               /\ log'[4].res = 0
               /\ addr' = arg' \div 2]_vars

C12_Witness ==
    /\ op = "setAddress"
    /\ arg = 248
    /\ ret = TRUE
    /\ addr = 124

\* C13: the offset is 0 after construction and changes only in
\* setDistanceOffset, which stores its argument; getDistanceOffset returns
\* the stored offset, so after setDistanceOffset(x) it returns x; neither
\* makes a bus call, bound or not.
C13_OffsetRoundTrip ==
    /\ distanceOffset = 0
    /\ [][/\ op' # "setDistanceOffset" => distanceOffset' = distanceOffset
          /\ op' = "setDistanceOffset" => (distanceOffset' = arg' /\ log' = <<>>)
          /\ op' = "getDistanceOffset" => (ret' = distanceOffset /\ log' = <<>>)
          /\ (op = "setDistanceOffset" /\ op' = "getDistanceOffset") => ret' = arg]_vars

C13_Witness ==
    /\ op = "getDistanceOffset"
    /\ wire = nullptr
    /\ ret = -32768
    /\ log = <<>>

\* C14: isConnected on a bound driver opens one transaction to the current
\* address, writes nothing, ends it, and returns true exactly when the
\* status is 0.
C14_IsConnected ==
    (op = "isConnected" /\ wire # nullptr)
        => /\ Len(log) = 2
           /\ log[1] = beginTransmission(addr)
           /\ log[2].ev = "endTransmission"
           /\ ret = (log[2].res = 0)

C14_Witness ==
    /\ op = "isConnected"
    /\ wire # nullptr
    /\ Len(log) = 2
    /\ log[2].res = 0
    /\ ret = TRUE

\* C15: a readDistance whose steps all succeed makes its bus calls in the
\* order: transaction writing 0x10 then 0xB0, wait of 50 ms, transaction
\* writing 0x02, request of 2 bytes, two reads.  The wait is entered only
\* after the command transaction ended with status 0, and the data pointer
\* is written only by a call that has been through the wait.
C15_ReadDistanceOrder ==
    [][/\ waiting' > waiting
            => /\ op' = "readDistance_delay"
               /\ waiting' = waiting + 1
       /\ op' = "readDistance_delay"
            => /\ waiting' = waiting + 1
               /\ log' = <<beginTransmission(addr), write(16), write(176),
                           endTransmission(0), delay(50)>>
       /\ (op' = "readDistance" /\ waiting' = waiting)
            => \A i \in 1 .. Len(log') :
                   /\ log'[i].ev # "delay"
                   /\ log'[i] # write(2)
                   /\ log'[i].ev # "requestFrom"
       /\ (op' = "readDistance" /\ waiting' # waiting)
            => /\ waiting > 0
               /\ waiting' = waiting - 1
               /\ Len(log') >= 3
               /\ log'[1] = beginTransmission(addr)
               /\ log'[2] = write(2)
               /\ log'[3].ev = "endTransmission"
               /\ (Requested(log') /\ ~Failed(log'))
                    => /\ Len(log') = 6
                       /\ log' = <<beginTransmission(addr), write(2),
                                   endTransmission(0), requestFrom(addr, 2, 2),
                                   read(log'[5].res), read(log'[6].res)>>]_vars

C15_Witness ==
    /\ op = "readDistance"
    /\ Len(log) = 6
    /\ log[2] = write(2)
    /\ ret = 100
    /\ waiting = 0

\* C16: every bus call that carries an address (beginTransmission,
\* requestFrom), the transaction of setAddress included, carries the address
\* the driver held when the method was called; a setAddress that returns
\* true leaves the address at its argument shifted right by one, and every
\* other call leaves the address as it was.
C16_AddressUsed ==
    [][/\ \A i \in 1 .. Len(log') :
              log'[i].ev \in {"beginTransmission", "requestFrom"}
                  => log'[i].addr = addr
       /\ (op' = "setAddress" /\ ret' = TRUE) => addr' = arg' \div 2
       /\ ~(op' = "setAddress" /\ ret' = TRUE) => addr' = addr]_vars

C16_Witness ==
    /\ op = "readSoftwareVersion"
    /\ addr = 127
    /\ Len(log) = 6
    /\ log[1].addr = 127
    /\ log[4].addr = 127

\* C17: restart on a bound driver makes one transaction that writes the
\* command register pointer and then the two restart command bytes in
\* order, returns true exactly when the status is 0, and makes no other bus
\* call.
C17_Restart ==
    (op = "restart" /\ wire # nullptr)
        => /\ Len(log) = 5
           /\ log = <<beginTransmission(addr), write(DYP_R01CW_COMMAND_REG),
                      write(DYP_R01CW_RESTART_COMMAND_1),
                      write(DYP_R01CW_RESTART_COMMAND_2),
                      endTransmission(log[5].res)>>
           /\ ret = (log[5].res = 0)

C17_Witness ==
    /\ op = "restart"
    /\ wire # nullptr
    /\ Len(log) = 5
    /\ log[5].res # 0
    /\ ret = FALSE

\* the transaction that position i of l lies in: it was begun at some j
\* before i and only bytes were written in between
InTransaction(l, i) ==
    \E j \in 1 .. (i - 1) :
        /\ l[j].ev = "beginTransmission"
        /\ \A k \in (j + 1) .. (i - 1) : l[k].ev = "write"

\* the number of reads that follow position j of l
ReadsAfter(l, j) == Cardinality({k \in (j + 1) .. Len(l) : l[k].ev = "read"})

\* C18: in the bus calls of every method each beginTransmission is followed
\* by its endTransmission with only writes in between, every write and
\* every endTransmission lies in a transaction, so no call ends with a
\* transaction open; read is called only right after a requestFrom that
\* answered 2, and then exactly twice.
C18_WellBracketed ==
    /\ \A i \in 1 .. Len(log) :
           log[i].ev = "beginTransmission"
               => \E j \in (i + 1) .. Len(log) :
                      /\ log[j].ev = "endTransmission"
                      /\ \A k \in (i + 1) .. (j - 1) : log[k].ev = "write"
    /\ \A i \in 1 .. Len(log) :
           log[i].ev \in {"write", "endTransmission"} => InTransaction(log, i)
    /\ \A i \in 1 .. Len(log) :
           log[i].ev = "requestFrom"
               => /\ ReadsAfter(log, i) = IF log[i].res = 2 THEN 2 ELSE 0
                  /\ \A k \in (i + 1) .. Len(log) : log[k].ev = "read"
    /\ \A i \in 1 .. Len(log) :
           log[i].ev = "read"
               => \E j \in 1 .. (i - 1) :
                      /\ log[j].ev = "requestFrom"
                      /\ log[j].res = 2

C18_Witness ==
    /\ op = "readDistance"
    /\ Len(log) = 4
    /\ log[4].ev = "requestFrom"
    /\ log[4].res = 1
    /\ ret = -1

\* C19: readDistance, isConnected, readSoftwareVersion and restart leave the
\* address, the offset and the handle as they were; setAddress leaves the
\* offset and the handle; setDistanceOffset leaves the address and the
\* handle; begin leaves the address and the offset.
C19_Frame ==
    [][/\ op' \in {"readDistance", "readDistance_delay", "isConnected",
                   "readSoftwareVersion", "restart"}
            => UNCHANGED <<addr, distanceOffset, wire>>
       /\ op' = "setAddress" => UNCHANGED <<distanceOffset, wire>>
       /\ op' = "setDistanceOffset" => UNCHANGED <<addr, wire>>
       /\ op' = "begin" => UNCHANGED <<addr, distanceOffset>>]_vars

C19_Witness ==
    /\ op = "begin"
    /\ wire = "Wire"
    /\ ret = TRUE
    /\ distanceOffset = 10
    /\ addr = 127

====
